---- MODULE Spec2Model ----
(***************************************************************************)
(* internet-hogs: the IPFIX ingestion task `measure` of src/main.rs, its   *)
(* IP -> MAC learning table, the per-MAC byte counters and the batched     *)
(* ClickHouse inserter it writes to; `main`, which checks the arguments,   *)
(* binds the sockets and spawns the task; the `metrics` handler.           *)
(***************************************************************************)
EXTENDS Integers, Sequences, FiniteSets, TLC

VARIABLES
    mpc,             \* position of main: "args" | "bind_udp" | "spawn" | "bind_tcp" |
                     \* "serving" | "exited" | "panicked"
    args,            \* env::args().skip(1)
    exited,          \* None while the process runs, else Some([code, stderr])
    socket,          \* Option: the address the UdpSocket is bound to
    listener,        \* Option: the address the TcpListener is bound to
    pc,              \* position of the ingestion task: "idle" (not spawned) | "recv" |
                     \* "loop" | "inc" (between get_or_create and inc_by) |
                     \* "panicked" | "ended" | "aborted" (the process is gone)
    cur,             \* Option: the item whose counter get_or_create has just created
    left,            \* how many items of the datagram the nested for loops have yet to visit
    local_ip_to_mac, \* HashMap<IpAddr, String>
    family,          \* Family<labels, Counter>: label (mac string) -> value
    buffer,          \* rows of the inserter's active INSERT, not yet ended
    next_at,         \* the inserter's Ticks deadline
    store,           \* the ipfix table: the batches of the INSERTs that ended successfully
    now,             \* the clock (seconds)
    written,         \* history: every row inserter.write accepted, in order
    uploads,         \* history: <<source IP, source MAC>> of every upload observation, in order
    last,            \* history: what the latest step of the ingestion task did
    incs,            \* history: <<label, n>> of every Counter::inc_by, in order
    scrape,          \* Option: the samples the metrics request in progress has encoded
    snapshots        \* history: the samples of every metrics response, in order

\* the state of main
mainvars == <<mpc, args, exited, socket, listener>>

\* the state of the metrics handler
metricsvars == <<scrape, snapshots>>

vars == <<mpc, args, exited, socket, listener, pc, cur, left, local_ip_to_mac, family,
          buffer, next_at, store, now, written, uploads, last, incs, scrape, snapshots>>

----------------------------------------------------------------------------
(* Bounds of the model *)

\* observations and packets received over a run
MaxRecords == 3
\* records received over a run that varies what a record can hold
MaxWideRecords == 1
\* items (records or foreign packets) in one datagram
MaxItems == 2
\* records received over a run that starts at main and serves metrics requests
MaxMainRecords == 3
\* metrics requests served over a run
MaxSnapshots == 2
\* the clock stops advancing here
MaxTime == 3
\* with_max_rows: the code sets 1000; the model runs the same logic with a small threshold
MaxRows == 2
\* with_period: the code sets 5 s; the model runs the same logic with a short period
Period == 2

(* Program constants *)

\* with_max_bytes(1024 * 1024)
MaxBytes == 1048576
\* RowBinary size of one IpFixRow: 8+8+4+16+2+4+16+2+1+4+4+1
RowBytes == 70

----------------------------------------------------------------------------
(* Values *)

\* Option and Result: None / Err(_) is the empty sequence, Some(x) / Ok(x) is <<x>>
None == <<>>
Some(x) == <<x>>

\* const EMPTY_MAC: &str = "00:00:00:00:00:00" (a string is its sequence of characters)
EMPTY_MAC == <<"0","0",":","0","0",":","0","0",":","0","0",":","0","0",":","0","0">>

\* IpAddr::V4, IpAddr::V6
V4(a) == [fam |-> "V4", addr |-> a]
V6(a) == [fam |-> "V6", addr |-> a]

\* Ipv4Addr::UNSPECIFIED, Ipv6Addr::UNSPECIFIED
UNSPECIFIED_V4 == "0.0.0.0"
UNSPECIFIED_V6 == "::"

\* FieldValue as the decoder yields it
MacAddr(s) == [tag |-> "MacAddr", val |-> s]
Ip4Addr(a) == [tag |-> "Ip4Addr", val |-> a]
Ip6Addr(a) == [tag |-> "Ip6Addr", val |-> a]
DataNumber(n) == [tag |-> "DataNumber", val |-> n]

----------------------------------------------------------------------------
(* Conversions *)

LowerHex == <<"0","1","2","3","4","5","6","7","8","9","a","b","c","d","e","f">>
UpperHex == <<"0","1","2","3","4","5","6","7","8","9","A","B","C","D","E","F">>

IsHex(c) == \E i \in 1..16 : LowerHex[i] = c \/ UpperHex[i] = c
HexVal(c) == (CHOOSE i \in 1..16 : LowerHex[i] = c \/ UpperHex[i] = c) - 1

\* StripColons that leaves the string as it is
StripColons_Keep(s) == s

\* str::replace(':', "")
StripColons(s) == SelectSeq(s, LAMBDA c : c # ":")

RECURSIVE StripLeadingZeros(_)
StripLeadingZeros(d) ==
    IF Len(d) > 1 /\ Head(d) = 0 THEN StripLeadingZeros(Tail(d)) ELSE d

\* u64::from_str_radix(s, 16): Err on the empty string, on a character that is no
\* hexadecimal digit and on more than 64 bits; the u64 is held as its hexadecimal
\* digits, most significant first, without leading zeros (zero is <<0>>).
FromStrRadix16(s) ==
    IF s = <<>> \/ \E i \in 1..Len(s) : ~IsHex(s[i]) THEN None
    ELSE LET d == StripLeadingZeros([i \in 1..Len(s) |-> HexVal(s[i])])
         IN  IF Len(d) > 16 THEN None ELSE Some(d)

\* <$output>::try_from(&FieldValue) for the output types the program asks for
TryFrom(fv, ty) ==
    CASE ty = "IpAddr" ->
            IF fv.tag = "Ip4Addr" THEN Some(V4(fv.val))
            ELSE IF fv.tag = "Ip6Addr" THEN Some(V6(fv.val))
            ELSE None
      [] ty = "String" -> IF fv.tag = "MacAddr" THEN Some(fv.val) ELSE None
      [] ty = "u8"  -> IF fv.tag = "DataNumber" /\ fv.val < 256 THEN Some(fv.val) ELSE None
      [] ty = "u16" -> IF fv.tag = "DataNumber" /\ fv.val < 65536 THEN Some(fv.val) ELSE None
      [] ty = "u32" -> IF fv.tag = "DataNumber" THEN Some(fv.val) ELSE None

----------------------------------------------------------------------------
(* The field map and the extraction of the required fields *)

\* data_field.values().cloned().collect::<BTreeMap<_, _>>(): a later pair replaces
\* an earlier pair of the same field
CollectMap(pairs) ==
    [k \in {pairs[i][1] : i \in DOMAIN pairs} |->
        LET j == CHOOSE i \in DOMAIN pairs :
                    /\ pairs[i][1] = k
                    /\ \A i2 \in DOMAIN pairs : pairs[i2][1] = k => i2 <= i
        IN  pairs[j][2]]

\* BTreeMap::get
MapGet(map, key) == IF key \in DOMAIN map THEN Some(map[key]) ELSE None

\* Option::or_else
OrElse(a, b) == IF a # None THEN a ELSE b

\* extract_field!(map, key, ty): None stands for the panic of either unwrap
ExtractField(map, key, ty) ==
    LET got == MapGet(map, key)
    IN  IF got = None THEN None ELSE TryFrom(got[1], ty)

\* ExtractFieldOr that looks under the fallback key first
ExtractFieldOr_FallbackFirst(map, key, fallback, ty) ==
    LET got == OrElse(MapGet(map, fallback), MapGet(map, key))
    IN  IF got = None THEN None ELSE TryFrom(got[1], ty)

\* extract_field!(map, key, fallback, ty)
ExtractFieldOr(map, key, fallback, ty) ==
    LET got == OrElse(MapGet(map, key), MapGet(map, fallback))
    IN  IF got = None THEN None ELSE TryFrom(got[1], ty)

\* the nine extractions at the head of the loop body; None when one of them panics
Extract(map) ==
    LET src_mac   == ExtractFieldOr(map, "SourceMacaddress", "PostSourceMacaddress", "String")
        src_addr  == ExtractFieldOr(map, "SourceIpv4address", "SourceIpv6address", "IpAddr")
        src_port  == ExtractField(map, "SourceTransportPort", "u16")
        dst_addr  == ExtractFieldOr(map, "DestinationIpv4address", "DestinationIpv6address", "IpAddr")
        dst_port  == ExtractField(map, "DestinationTransportPort", "u16")
        protocol  == ExtractField(map, "ProtocolIdentifier", "u8")
        packets   == ExtractField(map, "PacketDeltaCount", "u32")
        bytes     == ExtractField(map, "OctetDeltaCount", "u32")
        direction == ExtractField(map, "FlowDirection", "u8")
    IN  IF \/ src_mac = None \/ src_addr = None \/ src_port = None
           \/ dst_addr = None \/ dst_port = None \/ protocol = None
           \/ packets = None \/ bytes = None \/ direction = None
        THEN None
        ELSE Some([src_mac |-> src_mac[1], src_addr |-> src_addr[1],
                   src_port |-> src_port[1], dst_addr |-> dst_addr[1],
                   dst_port |-> dst_port[1], protocol |-> protocol[1],
                   packets |-> packets[1], bytes |-> bytes[1],
                   direction |-> direction[1]])

----------------------------------------------------------------------------
(* Role and direction, the learning table, the counters, the row *)

\* Classify with upload recognised as direction 1 instead of download as direction 0
Classify_UploadIsOne(o) ==
    IF o.direction # 1
    THEN [is_download |-> TRUE,
          client_addr |-> o.dst_addr, client_port |-> o.dst_port,
          server_addr |-> o.src_addr, server_port |-> o.src_port]
    ELSE [is_download |-> FALSE,
          client_addr |-> o.src_addr, client_port |-> o.src_port,
          server_addr |-> o.dst_addr, server_port |-> o.dst_port]

\* let is_download = direction == 0; the (client, server) tuple
Classify(o) ==
    LET is_download == o.direction = 0
    IN  IF is_download
        THEN [is_download |-> TRUE,
              client_addr |-> o.dst_addr, client_port |-> o.dst_port,
              server_addr |-> o.src_addr, server_port |-> o.src_port]
        ELSE [is_download |-> FALSE,
              client_addr |-> o.src_addr, client_port |-> o.src_port,
              server_addr |-> o.dst_addr, server_port |-> o.dst_port]

\* HashMap::get
CacheGet(m, k) == IF k \in DOMAIN m THEN Some(m[k]) ELSE None

\* CacheInsert that clears the table before it inserts
CacheInsert_Alone(m, k, v) == [x \in {k} |-> v]

\* HashMap::insert
CacheInsert(m, k, v) == [x \in DOMAIN m \cup {k} |-> IF x = k THEN v ELSE m[x]]

\* ClientMac that trusts the record's source MAC in either direction
ClientMac_SourceMac(m, c, src_mac) == src_mac

\* the value of `let client_mac = if is_download { ... } else { ... }`
ClientMac(m, c, src_mac) ==
    IF c.is_download
    THEN IF CacheGet(m, c.client_addr) = None THEN EMPTY_MAC ELSE CacheGet(m, c.client_addr)[1]
    ELSE src_mac

\* CacheAfter that keeps the first address learned for an IP
CacheAfter_FirstWins(m, c, src_mac) ==
    IF c.is_download THEN m
    ELSE IF CacheGet(m, c.client_addr) = None
         THEN CacheInsert(m, c.client_addr, src_mac)
         ELSE m

\* CacheAfter that learns from downloads too
CacheAfter_LearnsAlways(m, c, src_mac) == CacheInsert(m, c.client_addr, src_mac)

\* the table after that statement
CacheAfter(m, c, src_mac) ==
    IF c.is_download THEN m
    ELSE IF Some(src_mac) # CacheGet(m, c.client_addr)
         THEN CacheInsert(m, c.client_addr, src_mac)
         ELSE m

\* vec![("mac".to_owned(), client_mac.to_string())]
Label(mac) == << <<"mac", mac>> >>

\* Family::get_or_create: a label seen for the first time gets a counter at 0
GetOrCreate(f, label) ==
    IF label \in DOMAIN f THEN f
    ELSE [l \in DOMAIN f \cup {label} |-> IF l \in DOMAIN f THEN f[l] ELSE 0]

\* IncBy that stores n instead of adding it
IncBy_Store(f, label, n) ==
    [l \in DOMAIN f \cup {label} |->
        IF l = label THEN n ELSE f[l]]

\* family.get_or_create(label).inc_by(n); the u64 cannot wrap within the bounds
IncBy(f, label, n) ==
    [l \in DOMAIN f \cup {label} |->
        (IF l \in DOMAIN f THEN f[l] ELSE 0) + (IF l = label THEN n ELSE 0)]

\* FamilyAfter that counts every download under the sentinel address
FamilyAfter_Sentinel(f, c, client_mac, bytes) ==
    IF c.is_download THEN IncBy(f, Label(EMPTY_MAC), bytes) ELSE f

\* FamilyAfter without the is_download test
FamilyAfter_Always(f, c, client_mac, bytes) == IncBy(f, Label(client_mac), bytes)

\* if is_download { family.get_or_create(..).inc_by(bytes as u64) }
FamilyAfter(f, c, client_mac, bytes) ==
    IF c.is_download THEN IncBy(f, Label(client_mac), bytes) ELSE f

\* IpFixRow::new with the server slots matched on the client's address family
IpFixRowNew_ServerByClientFamily(client_mac, client_addr, client_port, server_addr, server_port, protocol, packets, bytes, is_download, time) ==
    LET client_ipv4 == IF client_addr.fam = "V4" THEN client_addr.addr ELSE UNSPECIFIED_V4
        client_ipv6 == IF client_addr.fam = "V4" THEN UNSPECIFIED_V6 ELSE client_addr.addr
        server_ipv4 == IF client_addr.fam = "V4" THEN server_addr.addr ELSE UNSPECIFIED_V4
        server_ipv6 == IF client_addr.fam = "V4" THEN UNSPECIFIED_V6 ELSE server_addr.addr
        mac == FromStrRadix16(StripColons(client_mac))
    IN  IF mac = None THEN None
        ELSE Some([insertion_time |-> time,
                   client_mac |-> mac[1],
                   client_ipv4 |-> client_ipv4, client_ipv6 |-> client_ipv6,
                   client_port |-> client_port,
                   server_ipv4 |-> server_ipv4, server_ipv6 |-> server_ipv6,
                   server_port |-> server_port,
                   protocol |-> protocol, is_download |-> is_download,
                   packets |-> packets, bytes |-> bytes])

\* IpFixRow::new; None when the MAC does not parse (the unwrap panics)
IpFixRowNew(client_mac, client_addr, client_port, server_addr, server_port, protocol, packets, bytes, is_download, time) ==
    LET client_ipv4 == IF client_addr.fam = "V4" THEN client_addr.addr ELSE UNSPECIFIED_V4
        client_ipv6 == IF client_addr.fam = "V4" THEN UNSPECIFIED_V6 ELSE client_addr.addr
        server_ipv4 == IF server_addr.fam = "V4" THEN server_addr.addr ELSE UNSPECIFIED_V4
        server_ipv6 == IF server_addr.fam = "V4" THEN UNSPECIFIED_V6 ELSE server_addr.addr
        mac == FromStrRadix16(StripColons(client_mac))
    IN  IF mac = None THEN None
        ELSE Some([insertion_time |-> time,
                   client_mac |-> mac[1],
                   client_ipv4 |-> client_ipv4, client_ipv6 |-> client_ipv6,
                   client_port |-> client_port,
                   server_ipv4 |-> server_ipv4, server_ipv6 |-> server_ipv6,
                   server_port |-> server_port,
                   protocol |-> protocol, is_download |-> is_download,
                   packets |-> packets, bytes |-> bytes])

----------------------------------------------------------------------------
(* The inserter *)

\* limits_reached that looks at the period only
LimitsReached_PeriodOnly(rows, bytes, time, deadline) == time >= deadline

\* limits_reached that lets the row count pass the threshold before it fires
LimitsReached_RowsOver(rows, bytes, time, deadline) ==
    rows > MaxRows \/ bytes >= MaxBytes \/ time >= deadline

\* Inserter::limits_reached, with the rows and bytes pending and the tick deadline
LimitsReached(rows, bytes, time, deadline) ==
    rows >= MaxRows \/ bytes >= MaxBytes \/ time >= deadline

\* Ticks::reschedule
Reschedule(time) == time + Period

----------------------------------------------------------------------------
(* What the socket delivers *)

M1 == <<"a","a",":","b","b",":","c","c",":","d","d",":","e","e",":","f","f">>
M2 == <<"0","2",":","0","0",":","0","0",":","0","0",":","0","0",":","0","1">>

A4 == V4("10.0.0.5")
B6 == V6("fd00::5")
R4 == V4("93.184.216.34")
R6 == V6("2606:2800::1")

SrcAddrField(ip) ==
    IF ip.fam = "V4" THEN <<"SourceIpv4address", Ip4Addr(ip.addr)>>
    ELSE <<"SourceIpv6address", Ip6Addr(ip.addr)>>

DstAddrField(ip) ==
    IF ip.fam = "V4" THEN <<"DestinationIpv4address", Ip4Addr(ip.addr)>>
    ELSE <<"DestinationIpv6address", Ip6Addr(ip.addr)>>

\* one data record: its (field, value) pairs in the order the decoder lists them
DataFields(mac, src, sport, dst, dport, proto, pkts, bytes, dir) ==
    << <<"SourceMacaddress", MacAddr(mac)>>,
       SrcAddrField(src),
       <<"SourceTransportPort", DataNumber(sport)>>,
       DstAddrField(dst),
       <<"DestinationTransportPort", DataNumber(dport)>>,
       <<"ProtocolIdentifier", DataNumber(proto)>>,
       <<"PacketDeltaCount", DataNumber(pkts)>>,
       <<"OctetDeltaCount", DataNumber(bytes)>>,
       <<"FlowDirection", DataNumber(dir)>> >>

Without(pairs, key) == SelectSeq(pairs, LAMBDA p : p[1] # key)

\* an item of a datagram: a data record of an IPFIX packet, or a packet of another kind
Record(pairs) == [kind |-> "record", fields |-> pairs]
NotIPFix == [kind |-> "other", fields |-> <<>>]

UploadFrom(src, mac) == Record(DataFields(mac, src, 5000, R4, 443, 6, 5, 500, 1))
DownloadTo(dst, bytes) == Record(DataFields(M2, R4, 443, dst, 5000, 6, 10, bytes, 0))

Items ==
    {UploadFrom(src, mac) : src \in {A4, B6}, mac \in {M1, M2}}
    \cup {DownloadTo(dst, bytes) : dst \in {A4, B6}, bytes \in {1000, 20000}}
    \cup {Record(Without(DataFields(M1, A4, 5000, R4, 443, 6, 5, 500, 1), "FlowDirection"))}
    \cup {NotIPFix}

\* records of every direction code and address family on either side
DirectionItems ==
    {Record(DataFields(M1, src, 5000, dst, 443, 17, 1, 64, dir)) :
        src \in {A4, B6}, dst \in {R4, R6}, dir \in {0, 1, 2, 255}}

\* records that hold a field under its primary key, its secondary key, both, neither,
\* or twice
AliasItems ==
    LET base(dir) == DataFields(M1, A4, 5000, R4, 443, 6, 5, 500, dir)
        noMac(dir) == Without(base(dir), "SourceMacaddress")
        noSrc(dir) == Without(base(dir), "SourceIpv4address")
    IN  UNION {
          { Record(<< <<"PostSourceMacaddress", MacAddr(M2)>> >> \o noMac(dir)),
            Record(<< <<"PostSourceMacaddress", MacAddr(M2)>> >> \o base(dir)),
            Record(base(dir) \o << <<"PostSourceMacaddress", MacAddr(M2)>> >>),
            Record(noMac(dir)),
            Record(base(dir) \o << <<"SourceMacaddress", MacAddr(M2)>> >>),
            Record(noSrc(dir) \o << <<"SourceIpv6address", Ip6Addr(B6.addr)>> >>),
            Record(base(dir) \o << <<"SourceIpv6address", Ip6Addr(B6.addr)>> >>),
            Record(noSrc(dir)),
            Record(Without(base(dir), "OctetDeltaCount")) } : dir \in {0, 1} }

WideItems == DirectionItems \cup AliasItems

----------------------------------------------------------------------------
(* The ingestion task *)

NoStep == [n |-> 0, item |-> None, outcome |-> "none", obs |-> None, cls |-> None,
           client_mac |-> None, row |-> None, flushed |-> None]

\* the ingestion task's state when measure reaches socket.recv for the first time
MeasureInit ==
    /\ cur = None
    /\ left = 0
    /\ local_ip_to_mac = <<>>
    /\ family = <<>>
    /\ buffer = <<>>
    /\ next_at = Reschedule(0)
    /\ store = <<>>
    /\ now = 0
    /\ written = <<>>
    /\ uploads = <<>>
    /\ last = NoStep
    /\ incs = <<>>
    /\ scrape = None
    /\ snapshots = <<>>

\* the command lines the process is started with
IpfixAddr == "[::]:2055"
MetricsAddr == "[::]:9100"
ArgLists == { <<>>, <<IpfixAddr>>, <<IpfixAddr, MetricsAddr>>,
              <<IpfixAddr, MetricsAddr, "extra">> }

\* main has spawned measure and serves; no datagram has arrived yet
Init ==
    /\ mpc = "serving"
    /\ args = <<IpfixAddr, MetricsAddr>>
    /\ exited = None
    /\ socket = Some(IpfixAddr)
    /\ listener = Some(MetricsAddr)
    /\ pc = "recv"
    /\ MeasureInit

\* the process has just started
InitMain ==
    /\ mpc = "args"
    /\ args \in ArgLists
    /\ exited = None
    /\ socket = None
    /\ listener = None
    /\ pc = "idle"
    /\ MeasureInit

\* CheckArgs that asks for the first argument only
CheckArgs_FirstOnly ==
    /\ mpc = "args"
    /\ IF Len(args) = 0
       THEN /\ exited' = Some([code |-> 1, stderr |-> "Missing ipfix address"])
            /\ mpc' = "exited"
       ELSE /\ mpc' = "bind_udp"
            /\ UNCHANGED exited
    /\ UNCHANGED <<args, socket, listener, pc, cur, left, local_ip_to_mac, family,
                   buffer, next_at, store, now, written, uploads, last, incs,
                   metricsvars>>

\* the two let-else on args.next(): eprintln! and exit(1) when an argument is missing
CheckArgs ==
    /\ mpc = "args"
    /\ IF Len(args) = 0
       THEN /\ exited' = Some([code |-> 1, stderr |-> "Missing ipfix address"])
            /\ mpc' = "exited"
       ELSE IF Len(args) = 1
       THEN /\ exited' = Some([code |-> 1, stderr |-> "Missing metrics address"])
            /\ mpc' = "exited"
       ELSE /\ mpc' = "bind_udp"
            /\ UNCHANGED exited
    /\ UNCHANGED <<args, socket, listener, pc, cur, left, local_ip_to_mac, family,
                   buffer, next_at, store, now, written, uploads, last, incs,
                   metricsvars>>

\* UdpSocket::bind(ipfix_addr).await.unwrap(), then the registry and the family
BindUdp ==
    /\ mpc = "bind_udp"
    /\ \E bind_ok \in BOOLEAN :
          IF bind_ok
          THEN /\ socket' = Some(args[1])
               /\ mpc' = "spawn"
               /\ UNCHANGED exited
          ELSE /\ mpc' = "panicked"
               /\ exited' = Some([code |-> 101, stderr |-> "panicked"])
               /\ UNCHANGED socket
    /\ UNCHANGED <<args, listener, pc, cur, left, local_ip_to_mac, family,
                   buffer, next_at, store, now, written, uploads, last, incs,
                   metricsvars>>

\* spawn(measure(socket, client, family)): the inserter is configured and the task
\* reaches socket.recv
Spawn ==
    /\ mpc = "spawn"
    /\ mpc' = "bind_tcp"
    /\ pc' = "recv"
    /\ next_at' = Reschedule(now)
    /\ UNCHANGED <<args, exited, socket, listener, cur, left, local_ip_to_mac, family,
                   buffer, store, now, written, uploads, last, incs, metricsvars>>

\* TcpListener::bind(metrics_addr).await.unwrap(), then axum::serve; a panic of main
\* ends the process and the ingestion task with it
BindTcp ==
    /\ mpc = "bind_tcp"
    /\ \E bind_ok \in BOOLEAN :
          IF bind_ok
          THEN /\ listener' = Some(args[2])
               /\ mpc' = "serving"
               /\ UNCHANGED <<exited, pc>>
          ELSE /\ mpc' = "panicked"
               /\ exited' = Some([code |-> 101, stderr |-> "panicked"])
               /\ pc' = "aborted"
               /\ UNCHANGED listener
    /\ UNCHANGED <<args, socket, cur, left, local_ip_to_mac, family,
                   buffer, next_at, store, now, written, uploads, last, incs,
                   metricsvars>>

\* a GET /metrics arrives: encode takes the read lock of the family
MetricsBegin ==
    /\ mpc = "serving"
    /\ scrape = None
    /\ Len(snapshots) < MaxSnapshots
    /\ scrape' = Some(<<>>)
    /\ UNCHANGED <<mainvars, pc, cur, left, local_ip_to_mac, family, buffer, next_at,
                   store, now, written, uploads, last, incs, snapshots>>

\* encode visits the next counter of the family, in the order the HashMap yields, and
\* loads its value
MetricsRead ==
    /\ scrape # None
    /\ \E l \in DOMAIN family \ DOMAIN scrape[1] :
          scrape' = Some([k \in DOMAIN scrape[1] \cup {l} |->
                            IF k = l THEN family[l] ELSE scrape[1][k]])
    /\ UNCHANGED <<mainvars, pc, cur, left, local_ip_to_mac, family, buffer, next_at,
                   store, now, written, uploads, last, incs, snapshots>>

\* every counter is encoded: the read lock is released and the handler returns buffer
MetricsEnd ==
    /\ scrape # None
    /\ DOMAIN family \subseteq DOMAIN scrape[1]
    /\ snapshots' = Append(snapshots, scrape[1])
    /\ scrape' = None
    /\ UNCHANGED <<mainvars, pc, cur, left, local_ip_to_mac, family, buffer, next_at,
                   store, now, written, uploads, last, incs>>

\* socket.recv(&mut buf).await returns Ok(size) and parser.parse_bytes yields k items;
\* what each item holds is drawn when the loop reaches it
Recv(cap) ==
    /\ pc = "recv"
    /\ \E k \in 1..MaxItems :
          /\ last.n + k <= cap
          /\ left' = k
    /\ pc' = "loop"
    /\ UNCHANGED <<mainvars, metricsvars, cur, local_ip_to_mac, family, buffer,
                   next_at, store, now, written, uploads, last, incs>>

\* socket.recv(&mut buf).await returns Err: the while let loop ends and measure returns
RecvErr ==
    /\ pc = "recv"
    /\ pc' = "ended"
    /\ UNCHANGED <<mainvars, metricsvars, cur, left, local_ip_to_mac, family, buffer,
                   next_at, store, now, written, uploads, last, incs>>

\* the task unwinds: panic!, or unwrap on None / Err
Panic(item, outcome, obs, cls, client_mac, row, flushed) ==
    /\ pc' = "panicked"
    /\ left' = left - 1
    /\ last' = [n |-> last.n + 1, item |-> Some(item), outcome |-> outcome,
                obs |-> obs, cls |-> cls, client_mac |-> client_mac, row |-> row,
                flushed |-> flushed]

\* the pass ends normally and the for loops move on, back to socket.recv after the
\* last item
Continue(item, obs, cls, client_mac, row, flushed) ==
    /\ pc' = IF left = 1 THEN "recv" ELSE "loop"
    /\ left' = left - 1
    /\ last' = [n |-> last.n + 1, item |-> Some(item), outcome |-> "ok",
                obs |-> obs, cls |-> cls, client_mac |-> client_mac, row |-> row,
                flushed |-> flushed]

\* the pass over a download whose label has no counter yet, up to the return of
\* family.get_or_create: the counter is created at 0 under the write lock of the
\* family, which waits for the read lock of an encode in progress
CreateCounter(S) ==
    /\ pc = "loop"
    /\ scrape = None
    /\ \E item \in S :
          /\ item.kind = "record"
          /\ \E o \in {Extract(CollectMap(item.fields))} :
                /\ o # None
                /\ \E c \in {Classify(o[1])} :
                   \E client_mac \in {ClientMac(local_ip_to_mac, c, o[1].src_mac)} :
                      /\ c.is_download
                      /\ Label(client_mac) \notin DOMAIN family
                      /\ family' = GetOrCreate(family, Label(client_mac))
                      /\ cur' = Some(item)
    /\ pc' = "inc"
    /\ UNCHANGED <<mainvars, metricsvars, left, local_ip_to_mac, buffer, next_at,
                   store, now, written, uploads, last, incs>>

\* one pass of the loop body (one item of the datagram), up to the next item, or the
\* rest of the pass CreateCounter began; each local of the body is bound once, as the
\* value of a one-element set
Step(S) ==
    /\ pc \in {"loop", "inc"}
    /\ cur' = None
    /\ UNCHANGED <<mainvars, metricsvars>>
    /\ \E item \in (IF pc = "inc" THEN {cur[1]} ELSE S) :
       IF item.kind # "record"
       THEN \* let NetflowPacket::IPFix(ipfix) = packet else { panic!(..) }
            /\ Panic(item, "not_ipfix", None, None, None, None, None)
            /\ UNCHANGED <<local_ip_to_mac, family, buffer, next_at, store, now,
                           written, uploads, incs>>
       ELSE
       \E o \in {Extract(CollectMap(item.fields))} :
       IF o = None
       THEN \* an extract_field! unwrap panics
            /\ Panic(item, "missing_field", None, None, None, None, None)
            /\ UNCHANGED <<local_ip_to_mac, family, buffer, next_at, store, now,
                           written, uploads, incs>>
       ELSE
       \E obs \in {o[1]} :
       \E c \in {Classify(obs)} :
       \E client_mac \in {ClientMac(local_ip_to_mac, c, obs.src_mac)} :
       \E row \in {IpFixRowNew(client_mac, c.client_addr, c.client_port,
                                c.server_addr, c.server_port, obs.protocol,
                                obs.packets, obs.bytes, c.is_download, now)} :
       \* a download whose counter does not exist yet goes through CreateCounter
       /\ (pc = "loop" /\ c.is_download) => Label(client_mac) \in DOMAIN family
       /\ local_ip_to_mac' = CacheAfter(local_ip_to_mac, c, obs.src_mac)
       /\ family' = FamilyAfter(family, c, client_mac, obs.bytes)
       /\ incs' = IF c.is_download THEN Append(incs, <<Label(client_mac), obs.bytes>>)
                  ELSE incs
       /\ uploads' = IF obs.direction = 0 THEN uploads
                     ELSE Append(uploads, <<obs.src_addr, obs.src_mac>>)
       /\ UNCHANGED now
       /\ IF row = None
          THEN \* u64::from_str_radix(..).unwrap() panics inside IpFixRow::new
               /\ Panic(item, "bad_mac", o, Some(c), Some(client_mac), None, None)
               /\ UNCHANGED <<buffer, next_at, store, written>>
          ELSE
          \E write_ok \in BOOLEAN, commit_ok \in BOOLEAN :
             IF ~write_ok
             THEN \* inserter.write(..).unwrap() panics
                  /\ Panic(item, "write_failed", o, Some(c), Some(client_mac), row, None)
                  /\ UNCHANGED <<buffer, next_at, store, written>>
             ELSE
             \E pending \in {Append(buffer, row[1])} :
             /\ written' = Append(written, row[1])
             /\ IF ~LimitsReached(Len(pending), RowBytes * Len(pending), now, next_at)
                THEN \* inserter.commit() returns Ok(Quantities::ZERO)
                     /\ buffer' = pending
                     /\ UNCHANGED <<next_at, store>>
                     /\ Continue(item, o, Some(c), Some(client_mac), row, None)
                ELSE IF commit_ok
                THEN \* the active INSERT ends: its rows are in the table
                     /\ buffer' = <<>>
                     /\ store' = Append(store, pending)
                     /\ next_at' = Reschedule(now)
                     /\ Continue(item, o, Some(c), Some(client_mac), row,
                                 Some(pending))
                ELSE \* inserter.commit().await.unwrap() panics; the batch is lost
                     /\ Panic(item, "commit_failed", o, Some(c), Some(client_mac), row,
                              Some(pending))
                     /\ buffer' = pending
                     /\ UNCHANGED <<next_at, store>>

\* a second passes
Tick ==
    /\ now < MaxTime
    /\ now' = now + 1
    /\ UNCHANGED <<mainvars, metricsvars, pc, cur, left, local_ip_to_mac, family,
                   buffer, next_at, store, written, uploads, last, incs>>

Next == Recv(MaxRecords) \/ RecvErr \/ CreateCounter(Items) \/ Step(Items) \/ Tick

Spec == Init /\ [][Next]_vars

\* the same task fed records that vary what a record can hold
NextWide ==
    Recv(MaxWideRecords) \/ RecvErr \/ CreateCounter(WideItems) \/ Step(WideItems) \/ Tick

SpecWide == Init /\ [][NextWide]_vars

\* the runtime keeps polling the task while it has a datagram to walk, and time
\* passes; nothing makes a datagram arrive
FairSpec == Spec /\ WF_vars(CreateCounter(Items)) /\ WF_vars(Step(Items)) /\ WF_vars(Tick)

\* the records of a run that starts at main
MainItems ==
    { UploadFrom(A4, M1), DownloadTo(A4, 1000), DownloadTo(A4, 20000), DownloadTo(B6, 1000) }

\* the whole process: main from its first statement, the task it spawns and the
\* metrics requests it serves, over runs short enough for the clock not to advance
NextMain ==
    \/ CheckArgs \/ BindUdp \/ Spawn \/ BindTcp
    \/ MetricsBegin \/ MetricsRead \/ MetricsEnd
    \/ Recv(MaxMainRecords) \/ RecvErr \/ CreateCounter(MainItems) \/ Step(MainItems)

SpecMain == InitMain /\ [][NextMain]_vars

\* axum keeps polling the handler of a request it has accepted; nothing is assumed of
\* the ingestion task, which may wait for a datagram or for the store for ever
FairSpecMain == SpecMain /\ WF_vars(MetricsRead) /\ WF_vars(MetricsEnd)

----------------------------------------------------------------------------
(* Properties *)

\* the ingestion task has just finished a pass of the loop body over a record whose
\* fields were all extracted
Observed == last'.n = last.n + 1 /\ last'.obs # None

\* the hardware address of the latest entry of log whose IP is ip, if any
LastUpload(log, ip) ==
    LET idx == {i \in DOMAIN log : log[i][1] = ip}
    IN  IF idx = {} THEN None
        ELSE Some(log[CHOOSE i \in idx : \A j \in idx : j <= i][2])

\* what a download to ip resolves to, given the uploads processed so far
Resolved(log, ip) ==
    IF LastUpload(log, ip) = None THEN EMPTY_MAC ELSE LastUpload(log, ip)[1]

\* C1: a download observation (direction = 0) whose destination IP is A resolves to the
\* hardware address of the most recent upload observation processed before it whose
\* source IP is A, and to 00:00:00:00:00:00 when there was none.
C1_DownloadResolvesToLatestUpload ==
    (last.obs # None /\ last.obs[1].direction = 0)
        => last.client_mac = Some(Resolved(uploads, last.obs[1].dst_addr))

\* a download to an IP that uploaded twice, with two addresses, resolved to the second
C1_Witness ==
    /\ last.obs # None /\ last.obs[1].direction = 0
    /\ Len(uploads) = 2
    /\ uploads[1] = <<last.obs[1].dst_addr, M2>>
    /\ uploads[2] = <<last.obs[1].dst_addr, M1>>
    /\ last.client_mac = Some(M1)

\* C2: is_download is true exactly when direction = 0; then client is the destination
\* side and server the source side; for every other direction client is the source
\* side and server the destination side.
C2_ClientIsDestinationIffDirectionZero ==
    last.obs # None =>
        LET o == last.obs[1]
            c == last.cls[1]
        IN  /\ c.is_download = (o.direction = 0)
            /\ o.direction = 0 =>
                  /\ c.client_addr = o.dst_addr /\ c.client_port = o.dst_port
                  /\ c.server_addr = o.src_addr /\ c.server_port = o.src_port
            /\ o.direction # 0 =>
                  /\ c.client_addr = o.src_addr /\ c.client_port = o.src_port
                  /\ c.server_addr = o.dst_addr /\ c.server_port = o.dst_port

\* a record of direction 2 was classified as an upload from its source side
C2_Witness ==
    /\ last.obs # None /\ last.obs[1].direction = 2
    /\ ~last.cls[1].is_download
    /\ last.cls[1].client_addr = B6 /\ last.cls[1].server_addr = R4

\* the value of the counter labelled l, 0 when it was never created
CounterValue(f, l) == IF l \in DOMAIN f THEN f[l] ELSE 0

\* C3: processing an upload observation leaves every counter unchanged; processing a
\* download observation of b bytes adds exactly b to the counter labelled with the
\* address it resolves to (the sentinel when unknown) and leaves every other counter
\* unchanged.
C3_OnlyDownloadsCount ==
    [][Observed =>
        LET o == last'.obs[1]
            l == Label(Resolved(uploads, o.dst_addr))
        IN  IF o.direction # 0
            THEN family' = family
            ELSE /\ l \in DOMAIN family'
                 /\ family'[l] = CounterValue(family, l) + o.bytes
                 /\ \A k \in (DOMAIN family \cup DOMAIN family') \ {l} :
                       /\ k \in DOMAIN family /\ k \in DOMAIN family'
                       /\ family'[k] = family[k]]_vars

\* an upload has just been processed while the counter of its address holds the bytes
\* of an earlier download
C3_Witness ==
    /\ last.obs # None /\ last.obs[1].direction # 0
    /\ last.obs[1].src_mac = M1
    /\ CounterValue(family, Label(M1)) = 1000

\* HashMap::get as an Option, for the table in the state
Cached(ip) == CacheGet(local_ip_to_mac, ip)

\* the IP addresses the table or the uploads so far name
KnownIps == DOMAIN local_ip_to_mac \cup {uploads[i][1] : i \in DOMAIN uploads}

\* C4: the table holds for an IP the hardware address of the last processed upload from
\* that IP, and nothing for an IP that never uploaded; after two uploads from one IP
\* with differing addresses it holds the later one only.
C4_CacheHoldsLatestUpload ==
    \A ip \in KnownIps : Cached(ip) = LastUpload(uploads, ip)

\* two uploads from one IP with differing addresses, the table holding the second
C4_Witness ==
    /\ Len(uploads) >= 2
    /\ uploads[1][1] = uploads[2][1]
    /\ uploads[1][2] # uploads[2][2]
    /\ Cached(uploads[2][1]) = Some(uploads[2][2])

\* C5: processing a download observation changes nothing in the table, whether the
\* client IP is present or not; processing an upload observation changes at most the
\* entry of its source IP.
C5_CacheFrame ==
    [][Observed =>
        LET o == last'.obs[1]
        IN  IF o.direction = 0
            THEN local_ip_to_mac' = local_ip_to_mac
            ELSE \A ip \in (DOMAIN local_ip_to_mac \cup DOMAIN local_ip_to_mac') \ {o.src_addr} :
                    /\ ip \in DOMAIN local_ip_to_mac /\ ip \in DOMAIN local_ip_to_mac'
                    /\ local_ip_to_mac'[ip] = local_ip_to_mac[ip]]_vars

\* a download to an IP the table does not hold, processed while it holds another
C5_Witness ==
    /\ last.obs # None /\ last.obs[1].direction = 0
    /\ last.outcome = "ok"
    /\ local_ip_to_mac # <<>>
    /\ last.obs[1].dst_addr \notin DOMAIN local_ip_to_mac

\* the slots of one side of a row hold addr: its family's slot the address, the other
\* slot that family's unspecified address
SlotsHold(ipv4, ipv6, addr) ==
    /\ addr.fam = "V4" => ipv4 = addr.addr /\ ipv6 = UNSPECIFIED_V6
    /\ addr.fam = "V6" => ipv6 = addr.addr /\ ipv4 = UNSPECIFIED_V4

\* C10: every row constructed has, for the client side and for the server side
\* independently, one of its (IPv4, IPv6) slots carrying the address and the other
\* equal to that family's unspecified address, for every combination of families.
C10_OneSlotPerSide ==
    last.row # None =>
        LET row == last.row[1]
            c == last.cls[1]
        IN  /\ SlotsHold(row.client_ipv4, row.client_ipv6, c.client_addr)
            /\ SlotsHold(row.server_ipv4, row.server_ipv6, c.server_addr)

\* a row whose client is an IPv6 address and whose server is an IPv4 address
C10_Witness ==
    /\ last.row # None
    /\ last.cls[1].client_addr = B6 /\ last.cls[1].server_addr = R4
    /\ last.row[1].client_ipv6 = B6.addr /\ last.row[1].client_ipv4 = UNSPECIFIED_V4
    /\ last.row[1].server_ipv4 = R4.addr /\ last.row[1].server_ipv6 = UNSPECIFIED_V6

\* the alternative keys under which each required field is looked up
RequiredFields ==
    { {"SourceMacaddress", "PostSourceMacaddress"},
      {"SourceIpv4address", "SourceIpv6address"},
      {"SourceTransportPort"},
      {"DestinationIpv4address", "DestinationIpv6address"},
      {"DestinationTransportPort"},
      {"ProtocolIdentifier"},
      {"PacketDeltaCount"},
      {"OctetDeltaCount"},
      {"FlowDirection"} }

\* a data record that holds some required field under none of its keys
LacksRequiredField(item) ==
    /\ item.kind = "record"
    /\ \E keys \in RequiredFields :
          \A i \in DOMAIN item.fields : item.fields[i][1] \notin keys

\* C6: a flow record missing a required field under both its keys does not stop
\* ingestion: the record is discarded, no row is written, the table and the counters
\* are unchanged, and the records that follow it are processed.
C6_MissingFieldIsSkipped ==
    [][(last'.n = last.n + 1 /\ LacksRequiredField(last'.item[1])) =>
        /\ pc' \in {"recv", "loop"}
        /\ written' = written
        /\ local_ip_to_mac' = local_ip_to_mac
        /\ family' = family]_vars

\* C7: when a sink write or commit fails, the ingestion loop drops the batch and goes
\* on: the observations received after the failure are still processed.
C7_SinkFailureKeepsIngesting ==
    last.outcome \in {"write_failed", "commit_failed"} => pc \in {"recv", "loop"}

RECURSIVE Flatten(_)
Flatten(batches) ==
    IF batches = <<>> THEN <<>> ELSE Head(batches) \o Flatten(Tail(batches))

\* the ingestion task has just written a row to the inserter
Wrote == last'.n = last.n + 1 /\ written' # written

\* the rows in the table followed by the rows pending are the rows written, in the
\* order written: none twice, none omitted, none out of order
C8_RowsInWriteOrder ==
    last.outcome # "commit_failed" => Flatten(store) \o buffer = written

\* the write of the MaxRows-th row since the last flush ends the INSERT with these
\* MaxRows rows in write order; an earlier write ends it only when the period is over
C8_FlushAtThreshold ==
    Wrote =>
        LET batch == SubSeq(written', Len(written') - Len(buffer), Len(written'))
        IN  /\ Len(buffer) + 1 = MaxRows =>
                 /\ last'.flushed = Some(batch)
                 /\ Len(batch) = MaxRows
                 /\ last'.outcome = "ok" =>
                       store' = Append(store, batch) /\ buffer' = <<>>
            /\ (Len(buffer) + 1 < MaxRows /\ now < next_at) =>
                 last'.flushed = None /\ store' = store /\ buffer' = batch

\* C8: with a row threshold of N, writing N rows since the last flush triggers exactly
\* one flush that contains all N rows in the order written and leaves the buffer
\* empty; no row is committed twice or omitted and no batch is reordered.
C8_RowThresholdFlush == []C8_RowsInWriteOrder /\ [][C8_FlushAtThreshold]_vars

\* the row threshold, not the period, has just ended an INSERT of MaxRows distinct rows
C8_Witness ==
    /\ last.outcome = "ok" /\ last.flushed # None
    /\ Len(last.flushed[1]) = MaxRows
    /\ last.flushed[1][1] # last.flushed[1][MaxRows]
    /\ store = <<last.flushed[1]>> /\ buffer = <<>>
    /\ now < Period

\* C9: with fewer rows than the row threshold pending and no further observation
\* arriving, once the period since the last flush is over the pending rows are
\* eventually flushed.
C9_PeriodFlushWithoutWrite ==
    (pc = "recv" /\ buffer # <<>> /\ now >= next_at) ~> (buffer = <<>> \/ pc # "recv")

\* C11: a packet the decoder yields that is not a flow (IPFIX) packet is skipped and
\* ingestion continues: the packets and datagrams after it are still processed, and the
\* table, the counters and the rows pending in the inserter are left as they were.
C11_ForeignPacketIsSkipped ==
    [][(last'.n = last.n + 1 /\ last'.item[1].kind # "record") =>
        /\ pc' \in {"recv", "loop"}
        /\ local_ip_to_mac' = local_ip_to_mac
        /\ family' = family
        /\ buffer' = buffer]_vars

\* C12: when the ingestion loop has stopped because socket.recv returned an error,
\* every row written to the inserter is in the table: a final flush has committed the
\* rows that were pending.
C12_FinalFlushOnStop ==
    pc = "ended" => (buffer = <<>> /\ Flatten(store) = written)

\* C13: when either positional argument (ingestion bind address, metrics bind address)
\* is missing, main reports an error and exits with a non-zero code before any socket
\* is bound: neither the UDP socket nor the TCP listener is ever open and the ingestion
\* task is never started.
C13_MissingArgumentExitsBeforeBind ==
    Len(args) < 2 =>
        /\ socket = None /\ listener = None /\ pc = "idle"
        /\ mpc \in {"args", "exited"}
        /\ mpc = "exited" =>
              /\ exited # None /\ exited[1].code # 0
              /\ exited[1].stderr = (IF Len(args) = 0 THEN "Missing ipfix address"
                                     ELSE "Missing metrics address")

\* started with the ingestion address only, the process has exited with code 1
C13_Witness ==
    /\ args = <<IpfixAddr>>
    /\ exited = Some([code |-> 1, stderr |-> "Missing metrics address"])
    /\ socket = None /\ listener = None /\ pc = "idle"

\* the sum of the increments log applies to the counter labelled l
RECURSIVE SumIncs(_, _)
SumIncs(log, l) ==
    IF log = <<>> THEN 0
    ELSE (IF Head(log)[1] = l THEN Head(log)[2] ELSE 0) + SumIncs(Tail(log), l)

\* the values the counter labelled l has held: the sums of the prefixes of its increments
Held(l) == {SumIncs(SubSeq(incs, 1, k), l) : k \in 0..Len(incs)}

\* no counter disappears or decreases in a step
C14_CountersNeverDecrease ==
    \A l \in DOMAIN family : l \in DOMAIN family' /\ family'[l] >= family[l]

\* every counter holds the sum of all the increments applied to it
C14_NoLostIncrement ==
    /\ \A l \in DOMAIN family : family[l] = SumIncs(incs, l)
    /\ \A i \in DOMAIN incs : incs[i][1] \in DOMAIN family

\* every sample of every response is a value its counter has held, and a later
\* response never shows less than an earlier one for the same label
C14_SnapshotsAreHeldValues ==
    /\ \A i \in DOMAIN snapshots : \A l \in DOMAIN snapshots[i] :
          snapshots[i][l] \in Held(l)
    /\ \A i \in DOMAIN snapshots : \A j \in DOMAIN snapshots :
          i < j => \A l \in DOMAIN snapshots[i] \cap DOMAIN snapshots[j] :
                      snapshots[i][l] <= snapshots[j][l]

\* C14: under any interleaving of the increments of the ingestion task with metrics
\* requests, no counter ever decreases, no increment is lost, every response gives for
\* each label a value the counter has held (the sum of a prefix of its increments),
\* successive responses are non-decreasing per label, and a request in progress
\* completes wherever the ingestion task is waiting.
C14_CountersUnderInterleaving ==
    /\ [][C14_CountersNeverDecrease]_vars
    /\ [](C14_NoLostIncrement /\ C14_SnapshotsAreHeldValues)
    /\ (scrape # None) ~> (scrape = None)

\* two responses taken around an increment of the sentinel counter, the second while
\* the ingestion task waits for a datagram
C14_Witness ==
    /\ Len(snapshots) = 2
    /\ snapshots[1] = (Label(EMPTY_MAC) :> 1000)
    /\ snapshots[2] = (Label(EMPTY_MAC) :> 21000)
    /\ family[Label(EMPTY_MAC)] = 21000
    /\ pc = "recv"

\* the number a hardware address denotes, read octet by octet from its six pairs of
\* hexadecimal digits, as its hexadecimal digits without leading zeros
MacNumber(mac) ==
    StripLeadingZeros([i \in 1..12 |-> HexVal(mac[3 * ((i - 1) \div 2) + ((i - 1) % 2) + 1])])

\* row is the row of the observation o, classified as c and resolved to mac
RowOf(row, o, c, mac) ==
    /\ SlotsHold(row.client_ipv4, row.client_ipv6, c.client_addr)
    /\ row.client_port = c.client_port
    /\ SlotsHold(row.server_ipv4, row.server_ipv6, c.server_addr)
    /\ row.server_port = c.server_port
    /\ row.is_download = c.is_download
    /\ row.protocol = o.protocol
    /\ row.packets = o.packets
    /\ row.bytes = o.bytes
    /\ row.client_mac = MacNumber(mac)
    /\ mac = EMPTY_MAC => row.client_mac = <<0>>

\* C15: every well-formed observation the sink accepts produces exactly one row, written
\* after the rows of the observations before it, whose client and server address and
\* port, isDownload flag, protocol, packets and bytes are the classifier's output for
\* the observation and whose clientMac is the number the resolved hardware address
\* denotes (0 for the sentinel); nothing else writes a row.
C15_OneRowPerObservation ==
    [][last'.n = last.n + 1 =>
        IF last'.obs # None /\ last'.outcome # "write_failed"
        THEN /\ Len(written') = Len(written) + 1
             /\ SubSeq(written', 1, Len(written)) = written
             /\ RowOf(written'[Len(written')], last'.obs[1], last'.cls[1],
                      last'.client_mac[1])
        ELSE written' = written]_vars

\* an upload from 10.0.0.5:5000 with aa:bb:cc:dd:ee:ff then the download to it: two
\* rows with the same client, server and clientMac, isDownload false then true, and
\* the counter of that address holding the bytes of the download only
C15_Witness ==
    /\ Len(written) = 2
    /\ \A i \in {1, 2} :
          /\ written[i].client_ipv4 = "10.0.0.5" /\ written[i].client_port = 5000
          /\ written[i].server_ipv4 = "93.184.216.34" /\ written[i].server_port = 443
          /\ written[i].client_mac = <<10, 10, 11, 11, 12, 12, 13, 13, 14, 14, 15, 15>>
    /\ ~written[1].is_download /\ written[1].bytes = 500
    /\ written[2].is_download /\ written[2].bytes = 20000
    /\ family = (Label(M1) :> 20000)
    /\ last.outcome = "ok"

\* the keys of the table stay, and a new key is the source IP of the upload observation
\* just processed
C16_KeysOnlyAdded ==
    /\ DOMAIN local_ip_to_mac \subseteq DOMAIN local_ip_to_mac'
    /\ \A ip \in DOMAIN local_ip_to_mac' \ DOMAIN local_ip_to_mac :
          /\ Observed
          /\ last'.obs[1].direction # 0
          /\ ip = last'.obs[1].src_addr

\* every entry of the table was reported by a processed upload from its IP
C16_ValuesWereReported ==
    \A ip \in DOMAIN local_ip_to_mac :
        \E i \in DOMAIN uploads : uploads[i] = <<ip, local_ip_to_mac[ip]>>

\* C16: the key set of the table never shrinks; a key is added only by the processing
\* of an upload observation and is that observation's source IP; every value in the
\* table is a hardware address that a processed upload observation from that IP
\* reported.
C16_CacheOnlyGrows == [][C16_KeysOnlyAdded]_vars /\ []C16_ValuesWereReported

\* the upload that has just been processed added a second key to the table
C16_Witness ==
    /\ last.obs # None /\ last.obs[1].direction # 0
    /\ last.obs[1].src_addr = B6
    /\ DOMAIN local_ip_to_mac = {A4, B6}
    /\ Len(uploads) = 2 /\ uploads[1][1] = A4

\* the record lists key
Present(pairs, key) == \E i \in DOMAIN pairs : pairs[i][1] = key

\* the value of the last pair of the record that lists key
LastValue(pairs, key) ==
    pairs[CHOOSE i \in DOMAIN pairs :
            /\ pairs[i][1] = key
            /\ \A j \in DOMAIN pairs : pairs[j][1] = key => j <= i][2]

\* what a lookup under primary with the fallback secondary is to return
Wins(pairs, primary, secondary) ==
    IF Present(pairs, primary) THEN Some(LastValue(pairs, primary))
    ELSE IF Present(pairs, secondary) THEN Some(LastValue(pairs, secondary))
    ELSE None

\* the address ip is the value fv of an address field
SameAddress(ip, fv) ==
    /\ ip.addr = fv.val
    /\ ip.fam = "V4" <=> fv.tag = "Ip4Addr"

\* C17: extraction with a fallback returns the value under the primary key whenever
\* the record has it, also when it has the secondary key too, the value under the
\* secondary key only when the primary key is absent, and fails only when both are
\* absent; of several values under one key the last one counts.
C17_PrimaryThenFallback ==
    (last.item # None /\ last.item[1].kind = "record") =>
        LET pairs == last.item[1].fields
            mac == Wins(pairs, "SourceMacaddress", "PostSourceMacaddress")
            src == Wins(pairs, "SourceIpv4address", "SourceIpv6address")
            dst == Wins(pairs, "DestinationIpv4address", "DestinationIpv6address")
        IN  /\ last.obs = None <=> LacksRequiredField(last.item[1])
            /\ last.obs # None =>
                  /\ mac # None /\ src # None /\ dst # None
                  /\ last.obs[1].src_mac = mac[1].val
                  /\ SameAddress(last.obs[1].src_addr, src[1])
                  /\ SameAddress(last.obs[1].dst_addr, dst[1])

\* a record that lists its source under SourceIpv4address and under SourceIpv6address
\* was read as the IPv4 address
C17_Witness ==
    /\ last.item # None /\ last.item[1].kind = "record"
    /\ Present(last.item[1].fields, "SourceIpv4address")
    /\ Present(last.item[1].fields, "SourceIpv6address")
    /\ last.obs # None /\ last.obs[1].src_addr = A4

\* the hardware addresses a run can name
Macs == {M1, M2, EMPTY_MAC}

\* the bytes of the rows of log with is_download set and client_mac equal to m
RECURSIVE DownloadBytes(_, _)
DownloadBytes(log, m) ==
    IF log = <<>> THEN 0
    ELSE (IF Head(log).is_download /\ Head(log).client_mac = m THEN Head(log).bytes ELSE 0)
         + DownloadBytes(Tail(log), m)

\* C18: whenever the loop has finished a record without error, the counter labelled
\* with a hardware address holds the sum of the bytes of the rows written so far with
\* isDownload set and that address as clientMac, rows with isDownload unset counting
\* for nothing; no counter has any other label.
C18_CountersMatchDownloadRows ==
    last.outcome \in {"none", "ok"} =>
        /\ \A mac \in Macs :
              CounterValue(family, Label(mac)) = DownloadBytes(written, MacNumber(mac))
        /\ DOMAIN family \subseteq {Label(mac) : mac \in Macs}

\* an upload and two downloads to its address: the counter holds the bytes of the two
\* download rows and not those of the upload row
C18_Witness ==
    /\ last.outcome = "ok"
    /\ Len(written) = 3
    /\ ~written[1].is_download /\ written[2].is_download /\ written[3].is_download
    /\ \A i \in 1..3 : written[i].client_mac = MacNumber(M1)
    /\ written[1].bytes = 500
    /\ family = (Label(M1) :> written[2].bytes + written[3].bytes)

\* C19: commit() follows every write, so after each record processed the rows pending
\* in the inserter are fewer than the row threshold, and the inserter never holds more
\* rows than the threshold.
C19_PendingBelowThreshold ==
    /\ last.outcome \in {"none", "ok"} => Len(buffer) < MaxRows
    /\ Len(buffer) <= MaxRows

\* a record has been processed and left the inserter one row short of the threshold
C19_Witness ==
    /\ last.outcome = "ok" /\ last.flushed = None
    /\ Len(buffer) = MaxRows - 1
    /\ buffer[Len(buffer)] = last.row[1]

====
